---- MODULE Spec2Model ----
(***************************************************************************)
(* Verification model of the ai-launchpad example programs.                *)
(*                                                                         *)
(* Part 1: the interactive agent loops                                     *)
(*   agents_module/agent_from_scratch/6_agent.py        (prog "6_agent")   *)
(*   agents_module/agent_with_mcp/main.py               (prog "mcp_main")  *)
(*   agents_module/agent_from_scratch/5_short_term_memory.py (prog "chat") *)
(* Part 2: the LangGraph workflows                                         *)
(*   langgraph/effective-agents/workflows/6_orchestrator-workers.py        *)
(*   langgraph/effective-agents/workflows/5_parallelization.py             *)
(*   langgraph/effective-agents/workflows/7_evaluator-optimizer.py         *)
(*   langgraph_module/effective_agents/workflows/4_routing.py              *)
(* Part 3: the memory stores, called directly                              *)
(*   agent_from_scratch/4_long_term_memory.py, 6_agent.py,                 *)
(*   agent_with_mcp/tools/memory_mcp.py                                    *)
(*                                                                         *)
(* Strings the code inspects character by character (the user's input,     *)
(* which goes through str.lower()) are sequences of one-character strings. *)
(***************************************************************************)
EXTENDS Integers, Sequences, FiniteSets, TLC

VARIABLES
    prog,            \* which program runs: "6_agent", "mcp_main", "chat", a graph, a memory module
    pc,              \* position of the control flow in that program
    turn,            \* agent loop: the turn counter
    route_to_agent,  \* agent loop: the flag that skips the input prompt
    user_input,      \* the line input() returned last
    messages,        \* the conversation list
    response,        \* response.output of the latest model invocation
    idx,             \* index of the next item of the for loop over response.output
    memories,        \* the memory store (module global / MCP memory server global)
    exit_reason,     \* how the loop ended: "none", "recursion_limit", "exit_command", or the exception
    next_call_id,    \* number of call ids the model API has issued so far
    invocations,     \* history: number of model invocations made by the loop
    executed,        \* history: names of the callables the dispatch has invoked
    base,            \* history: Len(messages) just before the latest model invocation
    tasks,           \* orchestrator-workers: WorkflowState.tasks
    completed_tasks, \* orchestrator-workers: WorkflowState.completed_tasks
    final_report,    \* orchestrator-workers: WorkflowState.final_report
    branch,          \* orchestrator-workers: state of each researcher branch of the superstep
    writes,          \* orchestrator-workers: the update each finished branch returned
    finish_order,    \* history: branch indices in the order the branches finished
    wf,              \* graph workflows: WorkflowState, and the files the nodes write;
                     \* 2_tool_calling.py: function_call and function_call_arguments
    node_runs,       \* history: how many times each node function has been executed
    steps,           \* graph workflows: supersteps executed so far in this run
    route,           \* history: the routers evaluated so far, with what each was given and returned
    active,          \* parallelization: nodes of the current superstep that have not run yet
    fired,           \* parallelization: nodes triggered for the next superstep
    pending,         \* parallelization: updates returned in the current superstep
    hide_private_tools, \* main.py: the flag of the same name
    printed,         \* history: what the agent loop has printed about tool calls
    call_log,        \* history: the tool calls the loop has dispatched, in order
    last_op          \* memory stores and search tools: the latest call and its outcome

vars == <<prog, pc, turn, route_to_agent, user_input, messages, response, idx, memories,
          exit_reason, next_call_id, invocations, executed, base,
          tasks, completed_tasks, final_report, branch, writes, finish_order,
          wf, node_runs, steps, route, active, fired, pending,
          hide_private_tools, printed, call_log, last_op>>

agentVars == <<turn, route_to_agent, user_input, messages, response, idx, memories,
               exit_reason, next_call_id, invocations, executed, base>>

owVars == <<tasks, completed_tasks, final_report, branch, writes, finish_order>>

graphVars == <<wf, node_runs, steps, route, active, fired, pending>>

printVars == <<hide_private_tools, printed, call_log>>

\* What the interactive loops never touch.
notLoopVars == <<owVars, graphVars, last_op>>

\* What the orchestrator-workers graph never touches, besides the loops' variables.
owOtherVars == <<wf, steps, active, fired, pending, printVars, last_op>>

-----------------------------------------------------------------------------
(* Bounds of the model *)

\* Loop iterations in which the user and the model choose freely among all
\* modelled inputs; afterwards the user keeps typing the same ordinary line
\* and the model keeps answering with the shape of its latest response.
MaxFree == 2

\* User messages accepted by the chat loop of 5_short_term_memory.py, which
\* has no turn counter of its own.
MaxChatTurns == 3

\* Memory ids the callers of manage_memories use: 1..MaxMemId.
MaxMemId == 2

\* Longest response.output the model returns to 2_tool_calling.py.
MaxTcItems == 3

\* The model passes num_results in -MaxNumResults..MaxNumResults.
MaxNumResults == 9

\* Largest task list the orchestrator's structured output holds.
MaxTasks == 3

-----------------------------------------------------------------------------
(* Program constants *)

recursion_limit == 30

AgentProgs == {"6_agent", "mcp_main"}

NoneVal == "None"

-----------------------------------------------------------------------------
(* str.lower() and the exit test *)

UpperToLower == [c \in {"E", "X", "I", "T", "Q", "U", "H"} |->
                   CASE c = "E" -> "e" [] c = "X" -> "x" [] c = "I" -> "i"
                     [] c = "T" -> "t" [] c = "Q" -> "q" [] c = "U" -> "u"
                     [] c = "H" -> "h"]

LowerChar(c) == IF c \in DOMAIN UpperToLower THEN UpperToLower[c] ELSE c

Lower(s) == [i \in DOMAIN s |-> LowerChar(s[i])]

ExitWords == { <<"e", "x", "i", "t">>, <<"q", "u", "i", "t">> }

\* Variant: the input is compared as typed.
IsExitCommandAsTyped(line) == line \in ExitWords

\* user_input.lower() in ["exit", "quit"]
IsExitCommand(line) == Lower(line) \in ExitWords

Hi == <<"h", "i">>

\* Lines the user may type while inputs are free.
UserInputs == { Hi,
                <<"e", "x", "i", "t">>, <<"E", "X", "I", "T">>,
                <<"Q", "u", "i", "t">>, <<"q", "u", "i", "t">> }

-----------------------------------------------------------------------------
(* Tools: what a call returns or raises *)

Return(v, mem) == [raised |-> FALSE, exc |-> "none", value |-> v, mem |-> mem]

Raise(e, mem) == [raised |-> TRUE, exc |-> e, value |-> NoneVal, mem |-> mem]

Put(mem, id, content) ==
    [k \in (DOMAIN mem) \cup {id} |-> IF k = id THEN content ELSE mem[k]]

Del(mem, id) == [k \in (DOMAIN mem) \ {id} |-> mem[k]]

\* The value of keyword parameter content: its default is None.
ContentOf(kwargs) == IF "content" \in DOMAIN kwargs THEN kwargs.content ELSE NoneVal

\* 6_agent.py: manage_memories(action, id, content=None)
manage_memories(kwargs, mem) ==
    LET id == kwargs.id
        content == ContentOf(kwargs)
    IN  IF kwargs.action = "create" THEN Return(Put(mem, id, content), Put(mem, id, content))
        ELSE IF kwargs.action = "update" THEN
            IF id \notin DOMAIN mem THEN Raise("ValueError", mem)
            ELSE IF content = NoneVal THEN Raise("ValueError", mem)
            ELSE Return(Put(mem, id, content), Put(mem, id, content))
        ELSE IF kwargs.action = "delete" THEN
            IF id \notin DOMAIN mem THEN Raise("ValueError", mem)
            ELSE Return(Del(mem, id), Del(mem, id))
        ELSE Return(mem, mem)

\* 6_agent.py: get_memories()
get_memories(mem) == Return(mem, mem)

\* Variant: update and delete of an id that is not in the store do nothing.
ltm_manage_memories_lenient(kwargs, mem) ==
    IF kwargs.action \in {"update", "delete"} /\ kwargs.id \notin DOMAIN mem
    THEN Return(mem, mem)
    ELSE manage_memories(kwargs, mem)

\* 4_long_term_memory.py: manage_memories(action, id, content=None)
ltm_manage_memories(kwargs, mem) ==
    LET id == kwargs.id
        content == ContentOf(kwargs)
    IN  IF kwargs.action = "create" THEN Return(Put(mem, id, content), Put(mem, id, content))
        ELSE IF kwargs.action = "update" THEN
            IF id \notin DOMAIN mem THEN Raise("ValueError", mem)
            ELSE IF content = NoneVal THEN Raise("ValueError", mem)
            ELSE Return(Put(mem, id, content), Put(mem, id, content))
        ELSE IF kwargs.action = "delete" THEN
            IF id \notin DOMAIN mem THEN Raise("ValueError", mem)
            ELSE Return(Del(mem, id), Del(mem, id))
        ELSE Return(mem, mem)

\* Variant: create stores the content whether or not the id exists, as the
\* stores of agent_from_scratch do.
mcp_manage_memories_overwriting(kwargs, mem) == manage_memories(kwargs, mem)

\* memory_mcp.py: manage_memories(action, id, content=None) of the MCP memory server
mcp_manage_memories(kwargs, mem) ==
    LET id == kwargs.id
        content == ContentOf(kwargs)
    IN  IF kwargs.action = "create" THEN
            IF id \in DOMAIN mem THEN Raise("ValueError", mem)
            ELSE IF content = NoneVal THEN Raise("ValueError", mem)
            ELSE Return(Put(mem, id, content), Put(mem, id, content))
        ELSE IF kwargs.action = "update" THEN
            IF id \notin DOMAIN mem THEN Raise("ValueError", mem)
            ELSE IF content = NoneVal THEN Raise("ValueError", mem)
            ELSE Return(Put(mem, id, content), Put(mem, id, content))
        ELSE IF kwargs.action = "delete" THEN
            IF id \notin DOMAIN mem THEN Raise("ValueError", mem)
            ELSE Return(Del(mem, id), Del(mem, id))
        ELSE Return(mem, mem)

\* The names of the tool schemas 6_agent.py sends to the model.
tools == {"search_web", "manage_memories", "get_memories", "search_products", "search_faq"}

\* Module-level names of 6_agent.py that are callable without being tools
\* (imports), and module-level names that are not callable (variables).
OtherCallableGlobals == {"load_dotenv"}

NonCallableGlobals == {"messages", "memories"}

GlobalNames == tools \cup OtherCallableGlobals \cup NonCallableGlobals

\* Keyword parameters of the callables: those without a default, and all.
Required(name) ==
    CASE name = "search_web" -> {"query"}
      [] name = "manage_memories" -> {"action", "id"}
      [] name = "search_products" -> {"query"}
      [] name = "search_faq" -> {"query"}
      [] OTHER -> {}

Allowed(name) ==
    CASE name = "search_web" -> {"query"}
      [] name = "manage_memories" -> {"action", "id", "content"}
      [] name = "search_products" -> {"query", "gender", "category", "num_results"}
      [] name = "search_faq" -> {"query", "category", "num_results"}
      [] name = "load_dotenv" -> {"dotenv_path", "override"}
      [] OTHER -> {}

\* f(**kwargs) binds: no required parameter is missing, no keyword is unexpected.
Binds(name, kwargs) ==
    /\ Required(name) \subseteq DOMAIN kwargs
    /\ DOMAIN kwargs \subseteq Allowed(name)

\* 6_agent.py: globals()[function_call.name](**function_call_arguments)
GlobalsDispatch(name, kwargs, mem) ==
    IF name \notin GlobalNames THEN Raise("KeyError", mem)
    ELSE IF name \in NonCallableGlobals THEN Raise("TypeError", mem)
    ELSE IF ~Binds(name, kwargs) THEN Raise("TypeError", mem)
    ELSE CASE name = "manage_memories" -> manage_memories(kwargs, mem)
           [] name = "get_memories" -> get_memories(mem)
           [] name = "search_web" -> Return("search_results", mem)
           [] name = "search_products" -> Return("documents", mem)
           [] name = "search_faq" -> Return("faq_results", mem)
           [] name = "load_dotenv" -> Return("True", mem)

\* 6_agent.py: the callable was looked up and entered (it ran, or began to).
GlobalsDispatchCalls(name, kwargs) ==
    /\ name \in GlobalNames
    /\ name \notin NonCallableGlobals
    /\ Binds(name, kwargs)

\* The tools the two MCP servers of main.py expose, prefixed by server name.
McpServerTools == {"memory_manage_memories", "memory_get_memories",
                   "retrieval_search_products", "retrieval_search_faq"}

\* main.py: mcp_client.call_tool(name, arguments); a tool the servers do not
\* have, arguments the tool does not accept and a tool that raises all come
\* back as an error result, which call_tool raises as ToolError.
call_tool(name, kwargs, mem) ==
    IF name \notin McpServerTools THEN Raise("ToolError", mem)
    ELSE CASE name = "memory_manage_memories" ->
                IF ~Binds("manage_memories", kwargs) THEN Raise("ToolError", mem)
                ELSE LET r == mcp_manage_memories(kwargs, mem)
                     IN  IF r.raised THEN Raise("ToolError", mem) ELSE r
           [] name = "memory_get_memories" ->
                IF DOMAIN kwargs # {} THEN Raise("ToolError", mem) ELSE Return(mem, mem)
           [] name = "retrieval_search_products" ->
                IF ~Binds("search_products", kwargs) THEN Raise("ToolError", mem)
                ELSE Return("documents", mem)
           [] name = "retrieval_search_faq" ->
                IF ~Binds("search_faq", kwargs) THEN Raise("ToolError", mem)
                ELSE Return("faq_results", mem)

\* main.py: the if / elif / else over function_call.name
McpDispatch(name, kwargs, mem) ==
    IF name = "search_web" THEN
        IF Binds("search_web", kwargs) THEN Return("search_results", mem)
        ELSE Raise("TypeError", mem)
    ELSE IF name = "retrieval_analyze_customer" THEN
        IF DOMAIN kwargs = {"user_id"} THEN Return("analysis", mem)
        ELSE Raise("McpError", mem)
    ELSE call_tool(name, kwargs, mem)

\* main.py: a callable (local function, MCP prompt or MCP tool) was entered.
McpDispatchCalls(name, kwargs) ==
    IF name = "search_web" THEN Binds("search_web", kwargs)
    ELSE IF name = "retrieval_analyze_customer" THEN DOMAIN kwargs = {"user_id"}
    ELSE /\ name \in McpServerTools
         /\ CASE name = "memory_manage_memories" -> Binds("manage_memories", kwargs)
              [] name = "memory_get_memories" -> DOMAIN kwargs = {}
              [] name = "retrieval_search_products" -> Binds("search_products", kwargs)
              [] name = "retrieval_search_faq" -> Binds("search_faq", kwargs)

\* The names of the tool schemas main.py sends to the model.
tool_schemas == {"search_web", "retrieval_analyze_customer"} \cup McpServerTools

Dispatch(p, name, kwargs, mem) ==
    IF p = "6_agent" THEN GlobalsDispatch(name, kwargs, mem)
    ELSE McpDispatch(name, kwargs, mem)

DispatchCalls(p, name, kwargs) ==
    IF p = "6_agent" THEN GlobalsDispatchCalls(name, kwargs)
    ELSE McpDispatchCalls(name, kwargs)

DeclaredTools(p) == IF p = "6_agent" THEN tools ELSE tool_schemas

\* str(function_response)
Str(v) == <<"str", v>>

\* Bookkeeping of one execution of node function n.
Ran(n) == [node_runs EXCEPT ![n] = @ + 1]

NoRoute == <<>>

\* A router function was evaluated on input and returned value.
Routed(router, input, value) ==
    Append(route, [router |-> router, input |-> input, raised |-> FALSE, value |-> value])

\* A router function was evaluated on input and raised exc.
RouterRaised(router, input, exc) ==
    Append(route, [router |-> router, input |-> input, raised |-> TRUE, value |-> exc])

\* No manage_memories call has been made yet.
NoOp == [action |-> "none"]

-----------------------------------------------------------------------------
(* The model API: items of response.output *)

NoArgs == [k \in {} |-> NoneVal]

\* A ResponseFunctionToolCall; arguments is a JSON text, modelled by whether
\* it is well-formed JSON and the object it denotes.
FnCall(name, kwargs) ==
    [type |-> "function_call", call_id |-> 0, name |-> name,
     arguments |-> [wellformed |-> TRUE, kwargs |-> kwargs]]

BadJsonCall(name) ==
    [type |-> "function_call", call_id |-> 0, name |-> name,
     arguments |-> [wellformed |-> FALSE, kwargs |-> NoArgs]]

Text == <<"o", "k">>

\* A ResponseOutputMessage with content[0].text
Msg == [type |-> "message", text |-> Text]

SearchWeb == FnCall("search_web", [query |-> "q"])

\* The function calls the model may emit, per program.
Calls(p) ==
    IF p = "6_agent" THEN
        { SearchWeb,
          FnCall("manage_memories", [action |-> "create", id |-> 1, content |-> "c"]),
          FnCall("manage_memories", [action |-> "delete", id |-> 1]),
          FnCall("get_memories", NoArgs),
          FnCall("get_memories", [query |-> "q"]),
          FnCall("load_dotenv", NoArgs),
          FnCall("messages", NoArgs),
          FnCall("does_not_exist", NoArgs),
          BadJsonCall("search_web") }
    ELSE
        { SearchWeb,
          FnCall("retrieval_analyze_customer", [user_id |-> 1]),
          FnCall("memory_manage_memories", [action |-> "create", id |-> 1, content |-> "c"]),
          FnCall("memory_manage_memories", [action |-> "delete", id |-> 1]),
          FnCall("memory_get_memories", NoArgs),
          FnCall("does_not_exist", NoArgs),
          BadJsonCall("search_web") }

\* The calls that also occur in responses of two items.
PairCalls(p) ==
    IF p = "6_agent" THEN
        { SearchWeb, FnCall("manage_memories", [action |-> "delete", id |-> 1]) }
    ELSE
        { SearchWeb, FnCall("memory_manage_memories", [action |-> "delete", id |-> 1]) }

\* The outputs the model may return, before the API numbers the calls.
Shapes(p) ==
    { <<>>, <<Msg>> }
    \cup { <<c>> : c \in Calls(p) }
    \cup { <<c, d>> : c \in PairCalls(p), d \in PairCalls(p) }
    \cup { <<c, Msg>> : c \in PairCalls(p) }
    \cup { <<Msg, c>> : c \in PairCalls(p) }

IsCall(item) == item.type = "function_call"

\* The API gives every function call of a run its own call_id.
WithIds(shape, issued) ==
    [i \in DOMAIN shape |->
        IF IsCall(shape[i])
        THEN [shape[i] EXCEPT !.call_id =
                 issued + Cardinality({j \in 1..i : IsCall(shape[j])})]
        ELSE shape[i]]

StripIds(out) ==
    [i \in DOMAIN out |-> IF IsCall(out[i]) THEN [out[i] EXCEPT !.call_id = 0] ELSE out[i]]

NumCalls(out) == Cardinality({i \in DOMAIN out : IsCall(out[i])})

-----------------------------------------------------------------------------
(* The agent loop of 6_agent.py and main.py *)

SystemPrompt == <<"S">>

\* The user and the model choose freely in this iteration.
Free == turn <= MaxFree

\* Variant: the budget test never succeeds.
LimitReachedNever(t) == FALSE

\* Variant: the comparison is strict.
LimitReachedStrict(t) == t > recursion_limit

\* if turn >= recursion_limit
LimitReached(t) == t >= recursion_limit

\* while True: turn += 1; the recursion limit check; if not route_to_agent
LoopTop ==
    /\ prog \in AgentProgs
    /\ pc = "top"
    /\ turn' = turn + 1
    /\ IF LimitReached(turn + 1)
       THEN /\ pc' = "done"
            /\ exit_reason' = "recursion_limit"
       ELSE /\ pc' = IF route_to_agent THEN "invoke" ELSE "input"
            /\ UNCHANGED exit_reason
    /\ UNCHANGED <<prog, route_to_agent, user_input, messages, response, idx, memories,
                   next_call_id, invocations, executed, base>>
    /\ UNCHANGED notLoopVars
    /\ UNCHANGED printVars

\* messages.append({"role": "user", "content": user_input})
UserMessage(line) == [role |-> "user", content |-> line]

\* user_input = input(...); the exit command; the append of the user message
ReadInput ==
    /\ prog \in AgentProgs
    /\ pc = "input"
    /\ \E line \in (IF Free THEN UserInputs ELSE {Hi}) :
          /\ user_input' = line
          /\ IF IsExitCommand(line)
             THEN /\ pc' = "done"
                  /\ exit_reason' = "exit_command"
                  /\ UNCHANGED messages
             ELSE /\ messages' = Append(messages, UserMessage(line))
                  /\ pc' = "invoke"
                  /\ UNCHANGED exit_reason
    /\ UNCHANGED <<prog, turn, route_to_agent, response, idx, memories,
                   next_call_id, invocations, executed, base>>
    /\ UNCHANGED notLoopVars
    /\ UNCHANGED printVars

\* response = client.responses.create(...); messages += response.output
InvokeModel ==
    /\ prog \in AgentProgs
    /\ pc = "invoke"
    /\ \E shape \in (IF Free THEN Shapes(prog) ELSE {StripIds(response)}) :
          /\ response' = WithIds(shape, next_call_id)
          /\ next_call_id' = next_call_id + NumCalls(shape)
    /\ messages' = messages \o response'
    /\ base' = Len(messages)
    /\ invocations' = invocations + 1
    /\ idx' = 1
    /\ pc' = "items"
    /\ UNCHANGED <<prog, turn, route_to_agent, user_input, memories, exit_reason, executed>>
    /\ UNCHANGED notLoopVars
    /\ UNCHANGED printVars

\* Variant: the entry carries the id of the response's last call.
FunctionCallOutputLastId(function_call, function_response) ==
    [type |-> "function_call_output",
     call_id |-> next_call_id,
     output |-> Str(function_response)]

\* The entry appended for an executed function call.
FunctionCallOutput(function_call, function_response) ==
    [type |-> "function_call_output",
     call_id |-> function_call.call_id,
     output |-> Str(function_response)]

\* The entry appended for a ResponseOutputMessage.
AssistantMessage(item) == [role |-> "assistant", content |-> item.text]

\* route_to_agent after a function call was executed / after an output message
RouteAfterCall == TRUE

\* Variant: an output message leaves the flag as it is.
RouteAfterMessageKept == route_to_agent

RouteAfterMessage == FALSE

\* main.py: the tools whose calls the flag can hide.
private_tools == {"retrieval_analyze_customer"}

\* Variant: a private tool is never printed, whatever the flag says.
ShouldPrintPublicOnly(name) == name \notin private_tools

\* main.py: should_print_tool; 6_agent.py prints every call it executed.
should_print_tool(name) == ~hide_private_tools \/ name \notin private_tools

PrintedCall(item) == [what |-> "call", call_id |-> item.call_id, name |-> item.name]

PrintedResponse(item) == [what |-> "response", call_id |-> item.call_id, name |-> item.name]

\* The lines printed while a function call item is processed. main.py prints
\* the call before it dispatches and the response after; 6_agent.py prints
\* both after the callable returned.
ToolPrints(p, item, raised) ==
    IF p = "mcp_main"
    THEN IF ~should_print_tool(item.name) THEN <<>>
         ELSE IF raised THEN << PrintedCall(item) >>
         ELSE << PrintedCall(item), PrintedResponse(item) >>
    ELSE IF raised THEN <<>>
         ELSE << PrintedCall(item), PrintedResponse(item) >>

\* One pass of the body of: for item in response.output
ProcessItem ==
    /\ prog \in AgentProgs
    /\ pc = "items"
    /\ idx <= Len(response)
    /\ LET item == response[idx] IN
         IF IsCall(item) THEN
            IF ~item.arguments.wellformed
            THEN \* json.loads raises
                 /\ pc' = "crashed"
                 /\ exit_reason' = "JSONDecodeError"
                 /\ UNCHANGED <<messages, route_to_agent, idx, memories, executed>>
                 /\ UNCHANGED <<printed, call_log>>
            ELSE LET kwargs == item.arguments.kwargs
                     r == Dispatch(prog, item.name, kwargs, memories)
                 IN  /\ call_log' = Append(call_log, [call_id |-> item.call_id,
                                                      name |-> item.name, kwargs |-> kwargs])
                     /\ printed' = printed \o ToolPrints(prog, item, r.raised)
                     /\ executed' = IF DispatchCalls(prog, item.name, kwargs)
                                    THEN executed \cup {item.name} ELSE executed
                     /\ memories' = r.mem
                     /\ IF r.raised
                        THEN \* nothing catches the exception
                             /\ pc' = "crashed"
                             /\ exit_reason' = r.exc
                             /\ UNCHANGED <<messages, route_to_agent, idx>>
                        ELSE /\ messages' = Append(messages, FunctionCallOutput(item, r.value))
                             /\ route_to_agent' = RouteAfterCall
                             /\ idx' = idx + 1
                             /\ UNCHANGED <<pc, exit_reason>>
         ELSE IF item.type = "message" THEN
            /\ messages' = Append(messages, AssistantMessage(item))
            /\ route_to_agent' = RouteAfterMessage
            /\ idx' = idx + 1
            /\ UNCHANGED <<pc, exit_reason, memories, executed, printed, call_log>>
         ELSE
            /\ idx' = idx + 1
            /\ UNCHANGED <<pc, exit_reason, messages, route_to_agent, memories, executed,
                           printed, call_log>>
    /\ UNCHANGED <<prog, turn, user_input, response, next_call_id, invocations, base,
                   hide_private_tools>>
    /\ UNCHANGED notLoopVars

\* The for loop is exhausted: back to the top of the while loop.
EndFor ==
    /\ prog \in AgentProgs
    /\ pc = "items"
    /\ idx > Len(response)
    /\ pc' = "top"
    /\ UNCHANGED <<prog>>
    /\ UNCHANGED agentVars
    /\ UNCHANGED notLoopVars
    /\ UNCHANGED printVars

-----------------------------------------------------------------------------
(* The chat loop of 5_short_term_memory.py *)

NumUserMessages(msgs) ==
    Cardinality({i \in DOMAIN msgs : "role" \in DOMAIN msgs[i] /\ msgs[i].role = "user"})

\* user_input = input(...); the exit command; the append of the user message
ChatReadInput ==
    /\ prog = "chat"
    /\ pc = "input"
    /\ \E line \in UserInputs :
          /\ user_input' = line
          /\ IF IsExitCommand(line)
             THEN /\ pc' = "done"
                  /\ exit_reason' = "exit_command"
                  /\ UNCHANGED messages
             ELSE /\ NumUserMessages(messages) < MaxChatTurns
                  /\ messages' = Append(messages, UserMessage(line))
                  /\ pc' = "invoke"
                  /\ UNCHANGED exit_reason
    /\ UNCHANGED <<prog, turn, route_to_agent, response, idx, memories,
                   next_call_id, invocations, executed, base>>
    /\ UNCHANGED notLoopVars
    /\ UNCHANGED printVars

\* response = client.responses.create(...) without tools; messages += response.output
ChatInvokeModel ==
    /\ prog = "chat"
    /\ pc = "invoke"
    /\ response' = <<Msg>>
    /\ messages' = messages \o response'
    /\ base' = Len(messages)
    /\ invocations' = invocations + 1
    /\ pc' = "input"
    /\ UNCHANGED <<prog, turn, route_to_agent, user_input, idx, memories, exit_reason,
                   next_call_id, executed>>
    /\ UNCHANGED notLoopVars
    /\ UNCHANGED printVars

-----------------------------------------------------------------------------
(* Specification of the interactive loops *)

\* 6_agent.py sets memories = {} and creates memory 1 before the loop; in
\* main.py the loop starts after call_tool("memory_manage_memories", create,
\* id 1) on the fresh server.
InitialMemories(p) == Put(NoArgs, 1, "c0")

Init ==
    /\ prog \in AgentProgs \cup {"chat"}
    /\ pc = IF prog = "chat" THEN "input" ELSE "top"
    /\ turn = 0
    /\ route_to_agent = FALSE
    /\ user_input = <<>>
    /\ messages = << [role |-> "system", content |-> SystemPrompt] >>
    /\ response = <<>>
    /\ idx = 1
    /\ memories = InitialMemories(prog)
    /\ exit_reason = "none"
    /\ next_call_id = 0
    /\ invocations = 0
    /\ executed = {}
    /\ base = 0
    /\ tasks = <<>>
    /\ completed_tasks = <<>>
    /\ final_report = NoneVal
    /\ branch = <<>>
    /\ writes = <<>>
    /\ finish_order = <<>>
    /\ node_runs = NoArgs
    /\ hide_private_tools \in (IF prog = "mcp_main" THEN BOOLEAN ELSE {FALSE})
    /\ wf = NoArgs
    /\ steps = 0
    /\ route = NoRoute
    /\ active = {}
    /\ fired = {}
    /\ pending = {}
    /\ printed = <<>>
    /\ call_log = <<>>
    /\ last_op = NoOp

Next ==
    \/ LoopTop
    \/ ReadInput
    \/ InvokeModel
    \/ ProcessItem
    \/ EndFor
    \/ ChatReadInput
    \/ ChatInvokeModel

Spec == Init /\ [][Next]_vars

-----------------------------------------------------------------------------
(* Properties of the interactive loops *)

IsUserEntry(m) == "role" \in DOMAIN m /\ m.role = "user"

IsAssistantEntry(m) == "role" \in DOMAIN m /\ m.role = "assistant"

IsOutputEntry(m) == "type" \in DOMAIN m /\ m.type = "function_call_output"

IsMessageItem(m) == "type" \in DOMAIN m /\ m.type = "message"

\* The entries appended since the latest model invocation began.
SinceInvoke == SubSeq(messages, base + 1, Len(messages))

\* The entries appended after response.output in the latest iteration.
AfterOutput == SubSeq(messages, base + Len(response) + 1, Len(messages))

CallIdsOf(entries) == [i \in DOMAIN entries |-> entries[i].call_id]

HasText(out) == \E i \in DOMAIN out : out[i].type = "message"

\* The item the for loop is at.
CurrentItem == response[idx]

\* The for loop over the latest response.output has run to its end.
BatchDone == prog \in AgentProgs /\ invocations > 0 /\ pc \in {"top", "input", "invoke", "done"}

\* C1: the loop never invokes the model more than recursion_limit times, and
\* a turn counter that has reached the limit means the loop has ended through
\* the 'Recursion limit reached' exit, not through an exception.
C1_TurnBudget ==
    prog \in AgentProgs =>
        /\ invocations <= recursion_limit
        /\ turn >= recursion_limit => (pc = "done" /\ exit_reason = "recursion_limit")

C1_Witness ==
    /\ prog \in AgentProgs
    /\ turn = recursion_limit
    /\ pc = "done"
    /\ exit_reason = "recursion_limit"
    /\ invocations = recursion_limit - 1

\* C2: when the for loop over a response has ended without an exception, the
\* function_call_output entries appended after the response carry the call
\* ids of the response's function calls, one each, in the response's order;
\* this holds in particular when the next model invocation starts.
C2_OutputsMatchCalls ==
    BatchDone =>
        CallIdsOf(SelectSeq(AfterOutput, IsOutputEntry)) = CallIdsOf(SelectSeq(response, IsCall))

C2_Witness ==
    /\ BatchDone
    /\ pc = "invoke"
    /\ NumCalls(response) = 2
    /\ Len(SelectSeq(AfterOutput, IsOutputEntry)) = 2

\* C3: a tool handler that raises never aborts the loop: the loop is never
\* ended by an exception while executing a callable it has entered.
C3_HandlerRaiseDoesNotAbort ==
    ~ /\ prog \in AgentProgs
      /\ pc = "crashed"
      /\ IsCall(CurrentItem)
      /\ CurrentItem.arguments.wellformed
      /\ DispatchCalls(prog, CurrentItem.name, CurrentItem.arguments.kwargs)

\* The name is no tool sent to the model and nothing else the dispatch finds.
UnknownTool(p, name) ==
    /\ name \notin DeclaredTools(p)
    /\ p = "6_agent" => name \notin GlobalNames

\* C4: a function call naming no known tool (such as does_not_exist) never
\* ends the loop with an exception (a failure tool result is appended instead).
C4_UnknownToolDoesNotCrash ==
    ~ /\ prog \in AgentProgs
      /\ pc = "crashed"
      /\ IsCall(CurrentItem)
      /\ CurrentItem.arguments.wellformed
      /\ UnknownTool(prog, CurrentItem.name)

\* C5: after a response that contains a function call the loop never asks
\* the user for input: it goes back to the model.
C5_CallsRouteBackToModel ==
    (prog \in AgentProgs /\ invocations > 0 /\ pc = "input") => NumCalls(response) = 0

\* C6: after a response with assistant text and no function call, the next
\* model invocation starts only with a freshly appended user message at the
\* end of the conversation.
C6_TextAwaitsUser ==
    (prog \in AgentProgs /\ invocations > 0 /\ pc = "invoke"
        /\ HasText(response) /\ NumCalls(response) = 0)
        => IsUserEntry(messages[Len(messages)])

C6_Witness ==
    /\ prog \in AgentProgs
    /\ invocations > 1
    /\ executed # {}
    /\ pc = "invoke"
    /\ HasText(response)
    /\ NumCalls(response) = 0
    /\ IsUserEntry(messages[Len(messages)])

\* The user's latest line is exit or quit in some letter case.
ExitTyped == Lower(user_input) \in ExitWords

\* C7: once the user has typed exit or quit, in any letter case, the loop has
\* ended; that line is not in the conversation; and an ended loop invokes no
\* model, executes no tool and appends nothing.
C7_ExitIsFinal ==
    /\ [](ExitTyped => (pc = "done" /\ exit_reason = "exit_command"))
    /\ [](\A i \in DOMAIN messages :
            IsUserEntry(messages[i]) => Lower(messages[i].content) \notin ExitWords)
    /\ [][pc = "done" =>
            /\ pc' = "done"
            /\ messages' = messages
            /\ invocations' = invocations
            /\ executed' = executed]_vars

C7_Witness ==
    /\ user_input = <<"E", "X", "I", "T">>
    /\ pc = "done"
    /\ exit_reason = "exit_command"
    /\ invocations > 0

NumTextItems(out) == Cardinality({i \in DOMAIN out : out[i].type = "message"})

NumTextEntries(entries) ==
    Cardinality({i \in DOMAIN entries :
                    IsMessageItem(entries[i]) \/ IsAssistantEntry(entries[i])})

\* C8: a model invocation adds each assistant text it returned to the
\* conversation once.
C8_TextAppendedOnce ==
    BatchDone /\ pc = "top" => NumTextEntries(SinceInvoke) = NumTextItems(response)

\* C9: 6_agent.py only ever executes callables named in its tool schemas.
C9_OnlyDeclaredToolsRun ==
    prog = "6_agent" => executed \subseteq tools

-----------------------------------------------------------------------------
(* The orchestrator-workers workflow of 6_orchestrator-workers.py           *)
(*                                                                          *)
(* The graph runs in supersteps: orchestrator; then one researcher branch   *)
(* per Send of researcher_router, all in one superstep; then synthesizer.   *)
(* A branch works on its own input and returns an update; the updates of a  *)
(* superstep are applied to WorkflowState, through each key's reducer, when *)
(* all its branches have returned, branch by branch in the order in which   *)
(* the branches were created.                                               *)

\* ResearchTask values the orchestrator's model may produce.
ResearchTaskValues ==
    { [topic |-> "A", search_query |-> "qa", task |-> "ta"],
      [topic |-> "B", search_query |-> "qb", task |-> "tb"] }

\* Texts the model may return as a report.
ReportValues == {"r1", "r2"}

RECURSIVE SeqsUpTo(_, _)
SeqsUpTo(S, n) ==
    IF n = 0 THEN { <<>> }
    ELSE SeqsUpTo(S, n - 1) \cup
         { Append(q, x) : q \in { r \in SeqsUpTo(S, n - 1) : Len(r) = n - 1 }, x \in S }

\* ResearchTasks.tasks as the structured output returns it (default []).
TaskLists == SeqsUpTo(ResearchTaskValues, MaxTasks)

owAgentVars == <<turn, route_to_agent, user_input, messages, response, idx, memories,
                 exit_reason, next_call_id, invocations, executed, base>>

\* orchestrator: return {"tasks": response.tasks}
orchestrator ==
    /\ prog = "orchestrator_workers"
    /\ pc = "orchestrator"
    /\ \E ts \in TaskLists : tasks' = ts
    /\ pc' = "researcher_router"
    /\ node_runs' = Ran("orchestrator")
    /\ UNCHANGED <<prog, completed_tasks, final_report, branch, writes, finish_order, route>>
    /\ UNCHANGED <<owAgentVars, owOtherVars>>

\* The indices of the Sends researcher_router returns, in list order:
\* [Send("researcher", {"task": task}) for task in state.tasks]
Sends(ts) == [i \in 1..Len(ts) |-> i]

\* researcher_router: one Send per task if state.tasks, else None, which is
\* no declared target of the conditional edge.
researcher_router ==
    /\ prog = "orchestrator_workers"
    /\ pc = "researcher_router"
    /\ IF tasks # <<>>
       THEN /\ branch' = [i \in 1..Len(tasks) |-> "running"]
            /\ writes' = [i \in 1..Len(tasks) |-> <<>>]
            /\ pc' = "researcher"
            /\ UNCHANGED exit_reason
       ELSE /\ pc' = "error"
            /\ exit_reason' = "router_returned_None"
            /\ UNCHANGED <<branch, writes>>
    /\ route' = Routed("researcher_router", Len(tasks),
                       IF tasks # <<>> THEN "researcher" ELSE NoneVal)
    /\ UNCHANGED <<prog, tasks, completed_tasks, final_report, finish_order, node_runs>>
    /\ UNCHANGED <<turn, route_to_agent, user_input, messages, response, idx, memories,
                   next_call_id, invocations, executed, base>>
    /\ UNCHANGED owOtherVars

\* researcher: return {"completed_tasks": [CompletedTask(task, report)]}
researcher(i) ==
    /\ prog = "orchestrator_workers"
    /\ pc = "researcher"
    /\ branch[i] = "running"
    /\ \E report \in ReportValues :
          writes' = [writes EXCEPT ![i] = << [task |-> tasks[i], report |-> report] >>]
    /\ branch' = [branch EXCEPT ![i] = "returned"]
    /\ finish_order' = Append(finish_order, i)
    /\ node_runs' = Ran("researcher")
    /\ UNCHANGED <<prog, pc, tasks, completed_tasks, final_report, route>>
    /\ UNCHANGED <<owAgentVars, owOtherVars>>

RECURSIVE ConcatWrites(_, _)
ConcatWrites(ws, order) ==
    IF order = <<>> THEN <<>>
    ELSE ws[Head(order)] \o ConcatWrites(ws, Tail(order))

\* Variant: the updates are applied as the branches return.
ApplyOrderByCompletion == finish_order

\* The order in which the updates of the researcher superstep are applied.
ApplyOrder == Sends(tasks)

\* Variant: the edge researcher -> synthesizer fires as soon as one branch
\* has returned.
SuperstepDoneOnFirstReturn == \E i \in DOMAIN branch : branch[i] = "returned"

\* The superstep of the researcher branches is over when each has returned.
SuperstepDone == \A i \in DOMAIN branch : branch[i] = "returned"

\* End of the researcher superstep: completed_tasks is reduced with
\* operator.add, and the edge researcher -> synthesizer fires.
researcher_superstep_end ==
    /\ prog = "orchestrator_workers"
    /\ pc = "researcher"
    /\ SuperstepDone
    /\ completed_tasks' = completed_tasks \o ConcatWrites(writes, ApplyOrder)
    /\ pc' = "synthesizer"
    /\ UNCHANGED <<prog, tasks, final_report, branch, writes, finish_order, node_runs, route>>
    /\ UNCHANGED <<owAgentVars, owOtherVars>>

\* synthesizer: return {"final_report": response.content}; then END
synthesizer ==
    /\ prog = "orchestrator_workers"
    /\ pc = "synthesizer"
    /\ \E report \in ReportValues : final_report' = report
    /\ pc' = "end"
    /\ node_runs' = Ran("synthesizer")
    /\ UNCHANGED <<prog, tasks, completed_tasks, branch, writes, finish_order, route>>
    /\ UNCHANGED <<owAgentVars, owOtherVars>>

\* graph.invoke(WorkflowState(messages=[...]))
InitOW ==
    /\ prog = "orchestrator_workers"
    /\ pc = "orchestrator"
    /\ turn = 0
    /\ route_to_agent = FALSE
    /\ user_input = <<>>
    /\ messages = << [role |-> "user", content |-> <<"?">>] >>
    /\ response = <<>>
    /\ idx = 1
    /\ memories = NoArgs
    /\ exit_reason = "none"
    /\ next_call_id = 0
    /\ invocations = 0
    /\ executed = {}
    /\ base = 0
    /\ tasks = <<>>
    /\ completed_tasks = <<>>
    /\ final_report = NoneVal
    /\ branch = <<>>
    /\ writes = <<>>
    /\ finish_order = <<>>
    /\ node_runs = [n \in {"orchestrator", "researcher", "synthesizer"} |-> 0]
    /\ hide_private_tools = FALSE
    /\ wf = NoArgs
    /\ steps = 0
    /\ route = NoRoute
    /\ active = {}
    /\ fired = {}
    /\ pending = {}
    /\ printed = <<>>
    /\ call_log = <<>>
    /\ last_op = NoOp

NextOW ==
    \/ orchestrator
    \/ researcher_router
    \/ \E i \in DOMAIN branch : researcher(i)
    \/ researcher_superstep_end
    \/ synthesizer

SpecOW == InitOW /\ [][NextOW]_vars

-----------------------------------------------------------------------------
(* Graph workflows: common definitions                                      *)
(*                                                                          *)
(* A compiled StateGraph runs in supersteps. The nodes triggered for a      *)
(* superstep all read the state as it was when the superstep began; what    *)
(* they return is applied when all of them have returned, and each edge     *)
(* add_edge(a, b) triggers b for the next superstep whenever a ran. A node  *)
(* that raises ends the run with its exception.                             *)

\* What no graph workflow other than orchestrator-workers touches.
graphOtherVars == <<turn, route_to_agent, user_input, messages, response, idx, memories,
                    next_call_id, invocations, executed, base,
                    owVars, printVars, last_op>>

\* The values of graphOtherVars in a graph run.
GraphOtherIdle ==
    /\ turn = 0
    /\ route_to_agent = FALSE
    /\ user_input = <<>>
    /\ messages = <<>>
    /\ response = <<>>
    /\ idx = 1
    /\ memories = NoArgs
    /\ next_call_id = 0
    /\ invocations = 0
    /\ executed = {}
    /\ base = 0
    /\ tasks = <<>>
    /\ completed_tasks = <<>>
    /\ final_report = NoneVal
    /\ branch = <<>>
    /\ writes = <<>>
    /\ finish_order = <<>>
    /\ hide_private_tools = FALSE
    /\ printed = <<>>
    /\ call_log = <<>>
    /\ last_op = NoOp

END == "__end__"

-----------------------------------------------------------------------------
(* The parallelization workflow, 5_parallelization.py *)

ParNodes == {"generate_post", "generate_image_prompt", "generate_image", "save_image",
             "generate_hashtags", "create_preview"}

\* builder.add_edge(START, ...)
ParEntry == {"generate_post", "generate_image_prompt", "generate_hashtags"}

\* builder.add_edge(n, ...): the nodes an execution of n triggers
ParEdges(n) ==
    CASE n = "generate_image_prompt" -> {"generate_image"}
      [] n = "generate_image" -> {"save_image"}
      [] n = "save_image" -> {"create_preview"}
      [] n = "generate_post" -> {"create_preview"}
      [] n = "generate_hashtags" -> {"create_preview"}
      [] n = "create_preview" -> {END}

\* WorkflowState(messages=[...]); post_preview.html does not exist yet.
ParInitialState ==
    [messages |-> <<"topic">>,
     image_prompt |-> NoneVal, image_url |-> NoneVal, image_data |-> NoneVal,
     image_filename |-> NoneVal, post |-> NoneVal, hashtags |-> NoneVal,
     preview_file |-> NoneVal]

\* Texts the model may return; an empty text is falsy in Python.
PostValues == {"p1", "p2"}
ImagePromptValues == {"", "ip"}
HashtagValues == {"", "#h", "#h #g"}

\* Outcomes of images.generate: an image with a url, data without a url, no data.
ImageResults == {"image", "no_url", "no_data"}

\* The updates of a superstep applied to the state: messages is reduced with
\* add_messages, every other key takes the value written.
ApplyWrites(state, ws) ==
    [k \in DOMAIN state |->
        IF k = "messages"
        THEN IF \E w \in ws : w[1] = k
             THEN Append(state[k], (CHOOSE w \in ws : w[1] = k)[2])
             ELSE state[k]
        ELSE IF \E w \in ws : w[1] = k
             THEN (CHOOSE w \in ws : w[1] = k)[2]
             ELSE state[k]]

\* Node n of the current superstep returns the update ws.
NodeReturns(n, ws) ==
    /\ active' = active \ {n}
    /\ pending' = pending \cup ws
    /\ fired' = fired \cup ParEdges(n)
    /\ node_runs' = Ran(n)
    /\ UNCHANGED <<prog, pc, exit_reason, steps, route>>
    /\ UNCHANGED graphOtherVars

\* Node n of the current superstep raises exc.
NodeRaises(n, exc) ==
    /\ pc' = "error"
    /\ exit_reason' = exc
    /\ node_runs' = Ran(n)
    /\ active' = active \ {n}
    /\ UNCHANGED <<prog, steps, route, pending, fired>>
    /\ UNCHANGED graphOtherVars

ParRunning(n) == prog = "parallelization" /\ pc = "running" /\ n \in active

\* return {"post": response.content}
generate_post ==
    /\ ParRunning("generate_post")
    /\ \E v \in PostValues : NodeReturns("generate_post", {<<"post", v>>})
    /\ UNCHANGED wf

\* return {"image_prompt": response.content}
generate_image_prompt ==
    /\ ParRunning("generate_image_prompt")
    /\ \E v \in ImagePromptValues :
          NodeReturns("generate_image_prompt", {<<"image_prompt", v>>})
    /\ UNCHANGED wf

\* if state.image_prompt: generate, download, return url and data, or raise;
\* otherwise the function returns None
generate_image ==
    /\ ParRunning("generate_image")
    /\ IF wf.image_prompt \notin {NoneVal, ""}
       THEN \E result \in ImageResults :
              IF result = "image"
              THEN NodeReturns("generate_image",
                               {<<"image_url", "url">>, <<"image_data", "png">>})
              ELSE NodeRaises("generate_image", "ValueError")
       ELSE NodeReturns("generate_image", {})
    /\ UNCHANGED wf

\* if state.image_data: save it and return the filename; otherwise None
save_image ==
    /\ ParRunning("save_image")
    /\ IF wf.image_data # NoneVal
       THEN NodeReturns("save_image", {<<"image_filename", "generated_image.png">>})
       ELSE NodeReturns("save_image", {})
    /\ UNCHANGED wf

\* return {"hashtags": response.content}
generate_hashtags ==
    /\ ParRunning("generate_hashtags")
    /\ \E v \in HashtagValues : NodeReturns("generate_hashtags", {<<"hashtags", v>>})
    /\ UNCHANGED wf

\* The text written to post_preview.html: image, post and hashtags as the
\* state holds them when the node runs.
PreviewHtml(state) ==
    [image |-> state.image_filename, post |-> state.post,
     hashtags |-> IF state.hashtags \in {NoneVal, ""} THEN "" ELSE state.hashtags]

\* create_preview: write post_preview.html, return the AIMessage
create_preview ==
    /\ ParRunning("create_preview")
    /\ wf' = [wf EXCEPT !.preview_file = PreviewHtml(wf)]
    /\ NodeReturns("create_preview", {<<"messages", "Minimal preview created">>})

\* The nodes of the superstep have all returned: apply their updates and
\* start the superstep of the nodes they triggered, or finish.
par_superstep_end ==
    /\ prog = "parallelization"
    /\ pc = "running"
    /\ active = {}
    /\ wf' = ApplyWrites(wf, pending)
    /\ pending' = {}
    /\ steps' = steps + 1
    /\ active' = fired \ {END}
    /\ fired' = {}
    /\ pc' = IF fired \ {END} = {} THEN "end" ELSE "running"
    /\ UNCHANGED <<prog, exit_reason, node_runs, route>>
    /\ UNCHANGED graphOtherVars

\* graph.invoke(WorkflowState(messages=[...]))
InitPar ==
    /\ prog = "parallelization"
    /\ pc = "running"
    /\ exit_reason = "none"
    /\ wf = ParInitialState
    /\ node_runs = [n \in ParNodes |-> 0]
    /\ steps = 0
    /\ route = NoRoute
    /\ active = ParEntry
    /\ fired = {}
    /\ pending = {}
    /\ GraphOtherIdle

NextPar ==
    \/ generate_post
    \/ generate_image_prompt
    \/ generate_image
    \/ save_image
    \/ generate_hashtags
    \/ create_preview
    \/ par_superstep_end

SpecPar == InitPar /\ [][NextPar]_vars

\* C12: in a run of the parallelization graph create_preview is executed at
\* most once, only after generate_post, generate_hashtags and save_image
\* have been executed, and exactly once in a run that reaches END.
C12_PreviewOnceAfterAllBranches ==
    prog = "parallelization" =>
        /\ node_runs["create_preview"] <= 1
        /\ node_runs["create_preview"] > 0 =>
              /\ node_runs["generate_post"] = 1
              /\ node_runs["generate_hashtags"] = 1
              /\ node_runs["save_image"] = 1
        /\ pc = "end" => node_runs["create_preview"] = 1

-----------------------------------------------------------------------------
(* The routing workflow, 4_routing.py *)

\* graph.invoke(...) passes no config: the run has the graph library's
\* default budget of supersteps.
default_recursion_limit == 25

\* Variant: one more superstep is let through.
OutOfStepsOneLater(limit) == steps > limit

\* Each superstep of the routing and the evaluator-optimizer graph runs one
\* node; no superstep starts once the budget is used up.
OutOfSteps(limit) == steps >= limit

\* What the classifier model may return for content_type; NoneVal stands for
\* an output without the field.
ClassifierOutputs == {"linkedin", "instagram", "blog", "tiktok", NoneVal}

ContentTypes == {"linkedin", "instagram", "blog"}

\* ContentChoice validation of the structured output: the field defaults to
\* "linkedin", and a value outside the Literal is rejected.
ContentChoice(raw) ==
    IF raw = NoneVal THEN [valid |-> TRUE, content_type |-> "linkedin"]
    ELSE IF raw \in ContentTypes THEN [valid |-> TRUE, content_type |-> raw]
    ELSE [valid |-> FALSE, content_type |-> raw]

\* Variant: "blog" is mapped to the LinkedIn flow.
ContentPathMapBlogToLinkedin(content_type) ==
    CASE content_type = "linkedin" -> "generate_linkedin"
      [] content_type = "instagram" -> "generate_instagram"
      [] content_type = "blog" -> "generate_linkedin"

\* The path map of the conditional edge from START.
ContentPathMap(content_type) ==
    CASE content_type = "linkedin" -> "generate_linkedin"
      [] content_type = "instagram" -> "generate_instagram"
      [] content_type = "blog" -> "generate_blog"

RoutingNodes == {"generate_linkedin", "review_linkedin", "generate_instagram", "generate_blog"}

\* Texts the model may return as content.
ContentValues == {"c1", "c2"}

\* The frame of a step of a graph that runs one node per superstep.
OneNodeFrame ==
    /\ UNCHANGED <<prog, active, fired, pending>>
    /\ UNCHANGED graphOtherVars

\* generate_content_router, the conditional edge from START
generate_content_router ==
    /\ prog = "routing"
    /\ pc = "generate_content_router"
    /\ \E raw \in ClassifierOutputs :
          LET choice == ContentChoice(raw) IN
            IF choice.valid
            THEN /\ route' = Routed("generate_content_router", raw, choice.content_type)
                 /\ pc' = ContentPathMap(choice.content_type)
                 /\ UNCHANGED exit_reason
            ELSE /\ route' = RouterRaised("generate_content_router", raw, "ValidationError")
                 /\ pc' = "error"
                 /\ exit_reason' = "ValidationError"
    /\ UNCHANGED <<wf, node_runs, steps>>
    /\ OneNodeFrame

\* return {"content": ..., "messages": [response], "rewrite": False}
generate_linkedin ==
    /\ prog = "routing"
    /\ pc = "generate_linkedin"
    /\ ~OutOfSteps(default_recursion_limit)
    /\ \E c \in ContentValues :
          wf' = [wf EXCEPT !.content = c, !.messages = Append(@, c), !.rewrite = FALSE]
    /\ node_runs' = Ran("generate_linkedin")
    /\ steps' = steps + 1
    /\ pc' = "review_linkedin"
    /\ UNCHANGED <<exit_reason, route>>
    /\ OneNodeFrame

\* is_valid: {"rewrite": False}; otherwise {"rewrite": True, "messages": feedback}
review_linkedin ==
    /\ prog = "routing"
    /\ pc = "review_linkedin"
    /\ ~OutOfSteps(default_recursion_limit)
    /\ \E is_valid \in BOOLEAN :
          wf' = IF is_valid THEN [wf EXCEPT !.rewrite = FALSE]
                ELSE [wf EXCEPT !.rewrite = TRUE, !.messages = Append(@, "feedback")]
    /\ node_runs' = Ran("review_linkedin")
    /\ steps' = steps + 1
    /\ pc' = "linkedin_router"
    /\ UNCHANGED <<exit_reason, route>>
    /\ OneNodeFrame

\* linkedin_router, the conditional edge from review_linkedin
linkedin_router ==
    /\ prog = "routing"
    /\ pc = "linkedin_router"
    /\ LET target == IF wf.rewrite THEN "generate_linkedin" ELSE END IN
         /\ route' = Routed("linkedin_router", wf.rewrite, target)
         /\ pc' = IF target = END THEN "end" ELSE target
    /\ UNCHANGED <<exit_reason, wf, node_runs, steps>>
    /\ OneNodeFrame

\* return {"content": response.content}; the node has no outgoing edge
generate_instagram ==
    /\ prog = "routing"
    /\ pc = "generate_instagram"
    /\ ~OutOfSteps(default_recursion_limit)
    /\ \E c \in ContentValues : wf' = [wf EXCEPT !.content = c]
    /\ node_runs' = Ran("generate_instagram")
    /\ steps' = steps + 1
    /\ pc' = "end"
    /\ UNCHANGED <<exit_reason, route>>
    /\ OneNodeFrame

\* return {"content": response.content}; the node has no outgoing edge
generate_blog ==
    /\ prog = "routing"
    /\ pc = "generate_blog"
    /\ ~OutOfSteps(default_recursion_limit)
    /\ \E c \in ContentValues : wf' = [wf EXCEPT !.content = c]
    /\ node_runs' = Ran("generate_blog")
    /\ steps' = steps + 1
    /\ pc' = "end"
    /\ UNCHANGED <<exit_reason, route>>
    /\ OneNodeFrame

\* A node is due but the budget of supersteps is used up: GraphRecursionError
routing_out_of_steps ==
    /\ prog = "routing"
    /\ pc \in RoutingNodes
    /\ OutOfSteps(default_recursion_limit)
    /\ pc' = "error"
    /\ exit_reason' = "GraphRecursionError"
    /\ UNCHANGED <<wf, node_runs, steps, route>>
    /\ OneNodeFrame

\* graph.invoke(WorkflowState(messages=[...]))
InitRouting ==
    /\ prog = "routing"
    /\ pc = "generate_content_router"
    /\ exit_reason = "none"
    /\ wf = [messages |-> <<"topic">>, content |-> NoneVal, rewrite |-> FALSE]
    /\ node_runs = [n \in RoutingNodes |-> 0]
    /\ steps = 0
    /\ route = NoRoute
    /\ active = {}
    /\ fired = {}
    /\ pending = {}
    /\ GraphOtherIdle

NextRouting ==
    \/ generate_content_router
    \/ generate_linkedin
    \/ review_linkedin
    \/ linkedin_router
    \/ generate_instagram
    \/ generate_blog
    \/ routing_out_of_steps

SpecRouting == InitRouting /\ [][NextRouting]_vars

\* The value the classifier returned in this run, NoneVal for no field.
Classified(v) ==
    /\ prog = "routing"
    /\ route # <<>>
    /\ route[1].router = "generate_content_router"
    /\ route[1].input = v

\* C13: in a run of the routing graph whose classifier returns "blog" only
\* generate_blog is ever executed, once, and the run then ends; likewise
\* "instagram" executes only generate_instagram.
C13_OnlyTheChosenBranchRuns ==
    /\ Classified("blog") =>
          /\ \A n \in RoutingNodes \ {"generate_blog"} : node_runs[n] = 0
          /\ node_runs["generate_blog"] <= 1
          /\ pc \in {"generate_blog", "end"}
          /\ pc = "end" <=> node_runs["generate_blog"] = 1
    /\ Classified("instagram") =>
          /\ \A n \in RoutingNodes \ {"generate_instagram"} : node_runs[n] = 0
          /\ node_runs["generate_instagram"] <= 1
          /\ pc \in {"generate_instagram", "end"}
          /\ pc = "end" <=> node_runs["generate_instagram"] = 1

C13_Witness ==
    /\ Classified("blog")
    /\ pc = "end"
    /\ node_runs["generate_blog"] = 1
    /\ wf.content = "c2"

\* C15: a classifier output that is none of linkedin, instagram and blog,
\* an output without content_type included, ends the run of the routing
\* graph with an error and no generation node is executed.
C15_UnmatchedClassifierOutputIsAnError ==
    \A v \in ClassifierOutputs \ ContentTypes :
        Classified(v) =>
            /\ pc = "error"
            /\ \A n \in RoutingNodes : node_runs[n] = 0

-----------------------------------------------------------------------------
(* The evaluator-optimizer workflow, 7_evaluator-optimizer.py *)

\* config=RunnableConfig(recursion_limit=15)
eval_recursion_limit == 15

EvalNodes == {"generate_code", "evaluate_code"}

\* Texts the model may return as code, and as feedback of a review.
CodeValues == {"code1", "code2"}
FeedbackValues == {NoneVal, "fb"}

\* CodeReview values the reviewing model may return.
CodeReviews == [is_valid : BOOLEAN, feedback : FeedbackValues]

\* return {"code": response.content}; the edge to evaluate_code
generate_code ==
    /\ prog = "evaluator_optimizer"
    /\ pc = "generate_code"
    /\ ~OutOfSteps(eval_recursion_limit)
    /\ \E c \in CodeValues : wf' = [wf EXCEPT !.code = c]
    /\ node_runs' = Ran("generate_code")
    /\ steps' = steps + 1
    /\ pc' = "evaluate_code"
    /\ UNCHANGED <<exit_reason, route>>
    /\ OneNodeFrame

\* return {"code_review": response}
evaluate_code ==
    /\ prog = "evaluator_optimizer"
    /\ pc = "evaluate_code"
    /\ ~OutOfSteps(eval_recursion_limit)
    /\ \E review \in CodeReviews : wf' = [wf EXCEPT !.code_review = <<review>>]
    /\ node_runs' = Ran("evaluate_code")
    /\ steps' = steps + 1
    /\ pc' = "evaluator_router"
    /\ UNCHANGED <<exit_reason, route>>
    /\ OneNodeFrame

\* Variant: the router sends every verdict back to the generator.
EvaluatorTargetAlwaysRegenerate(code_review) == "generate_code"

\* if state.code_review and state.code_review.is_valid: return END
\* return "generate_code"
EvaluatorTarget(code_review) ==
    IF code_review # <<>> /\ code_review[1].is_valid THEN END ELSE "generate_code"

\* evaluator_router, the conditional edge from evaluate_code
evaluator_router ==
    /\ prog = "evaluator_optimizer"
    /\ pc = "evaluator_router"
    /\ LET target == EvaluatorTarget(wf.code_review) IN
         /\ route' = Routed("evaluator_router",
                            wf.code_review # <<>> /\ wf.code_review[1].is_valid, target)
         /\ pc' = IF target = END THEN "end" ELSE target
    /\ UNCHANGED <<exit_reason, wf, node_runs, steps>>
    /\ OneNodeFrame

\* A node is due but the budget of supersteps is used up: GraphRecursionError
eval_out_of_steps ==
    /\ prog = "evaluator_optimizer"
    /\ pc \in EvalNodes
    /\ OutOfSteps(eval_recursion_limit)
    /\ pc' = "error"
    /\ exit_reason' = "GraphRecursionError"
    /\ UNCHANGED <<wf, node_runs, steps, route>>
    /\ OneNodeFrame

\* graph.invoke(input=WorkflowState(messages=[...]), config=...)
InitEval ==
    /\ prog = "evaluator_optimizer"
    /\ pc = "generate_code"
    /\ exit_reason = "none"
    /\ wf = [messages |-> <<"request">>, code |-> NoneVal, code_review |-> <<>>]
    /\ node_runs = [n \in EvalNodes |-> 0]
    /\ steps = 0
    /\ route = NoRoute
    /\ active = {}
    /\ fired = {}
    /\ pending = {}
    /\ GraphOtherIdle

NextEval ==
    \/ generate_code
    \/ evaluate_code
    \/ evaluator_router
    \/ eval_out_of_steps

SpecEval == InitEval /\ [][NextEval]_vars

\* The verdicts the evaluator has returned so far are k times not valid and
\* then valid.
VerdictsFalseThenTrue(k) ==
    /\ prog = "evaluator_optimizer"
    /\ Len(route) = k + 1
    /\ \A i \in 1..k : route[i].input = FALSE
    /\ route[k + 1].input = TRUE

\* C16: when the evaluator answers not valid k times and then valid, and
\* 2(k+1) node executions fit in the recursion limit of 15, generate_code has
\* run exactly k+1 times and the run has ended at END, without a recursion
\* error, directly after the (k+1)-th evaluation; no run ends at END otherwise.
C16_ApprovalEndsTheLoop ==
    /\ \A k \in 0..eval_recursion_limit :
          (2 * (k + 1) <= eval_recursion_limit /\ VerdictsFalseThenTrue(k)) =>
              /\ pc = "end"
              /\ exit_reason = "none"
              /\ node_runs["generate_code"] = k + 1
              /\ node_runs["evaluate_code"] = k + 1
    /\ (prog = "evaluator_optimizer" /\ pc = "end") =>
          \E k \in 0..eval_recursion_limit : VerdictsFalseThenTrue(k)

C16_Witness ==
    /\ VerdictsFalseThenTrue(2)
    /\ pc = "end"
    /\ node_runs["generate_code"] = 3
    /\ exit_reason = "none"

-----------------------------------------------------------------------------
(* The conditional edges of the graphs *)

\* The declared targets of each conditional edge: the list or the keys of the
\* path map given to add_conditional_edges.
RouteTargets(router) ==
    CASE router = "researcher_router" -> {"researcher"}
      [] router = "generate_content_router" -> {"linkedin", "instagram", "blog"}
      [] router = "linkedin_router" -> {"generate_linkedin", END}
      [] router = "evaluator_router" -> {"generate_code", END}
      [] router = "check_outline_gate" -> {"tools", END, "write_draft"}
      [] router = "agent_router" -> {"tools", END}

\* C14: whenever a conditional edge is evaluated, the value its router
\* function returns is one of the edge's declared targets or END; for
\* researcher_router this includes the empty task list.
C14_RoutersReturnDeclaredTargets ==
    \A i \in DOMAIN route :
        ~route[i].raised => route[i].value \in RouteTargets(route[i].router) \cup {END}

-----------------------------------------------------------------------------
(* The two refinement loops together *)

InitRefine == InitRouting \/ InitEval

NextRefine == NextRouting \/ NextEval

\* graph.invoke(...) keeps running supersteps until the run ends or raises.
SpecRefine == InitRefine /\ [][NextRefine]_vars /\ WF_vars(NextRefine)

NodeExecutions == steps

RunOver == pc \in {"end", "error"}

-----------------------------------------------------------------------------
(* Printing of tool calls in main.py *)

WasPrinted(line) == \E i \in DOMAIN printed : printed[i] = line

Hidden(name) == hide_private_tools /\ name \in private_tools

\* The lines main.py is to print for a call: none for a hidden private tool,
\* the call alone when the tool raised, the call and the response otherwise.
ExpectedPrints(item, returned) ==
    IF Hidden(item.name) THEN <<>>
    ELSE IF returned THEN << PrintedCall(item), PrintedResponse(item) >>
    ELSE << PrintedCall(item) >>

\* C18: in main.py the flag hide_private_tools never changes and, whatever
\* its value, a step of the loop at a function call item with parsable
\* arguments dispatches that call with the name and arguments the model gave
\* and, unless the tool raises, appends its function_call_output to
\* messages; the call and the response are printed exactly if the tool is
\* not a private tool under a true flag; no other step dispatches or prints.
C18_HidingAffectsPrintingOnly ==
    [][prog = "mcp_main" =>
          /\ hide_private_tools' = hide_private_tools
          /\ IF pc = "items" /\ idx <= Len(response) /\ IsCall(response[idx])
                /\ response[idx].arguments.wellformed
             THEN LET item == response[idx]
                      returned == pc' # "crashed"
                  IN  /\ call_log' = Append(call_log,
                                            [call_id |-> item.call_id, name |-> item.name,
                                             kwargs |-> item.arguments.kwargs])
                      /\ printed' = printed \o ExpectedPrints(item, returned)
                      /\ IF returned
                         THEN /\ Len(messages') = Len(messages) + 1
                              /\ IsOutputEntry(messages'[Len(messages')])
                              /\ messages'[Len(messages')].call_id = item.call_id
                              /\ SubSeq(messages', 1, Len(messages)) = messages
                              /\ idx' = idx + 1
                         ELSE messages' = messages
             ELSE /\ call_log' = call_log
                  /\ printed' = printed]_vars

\* A hidden private call and a printed public call in one run.
C18_Witness ==
    /\ prog = "mcp_main"
    /\ hide_private_tools
    /\ \E i \in DOMAIN call_log :
          /\ call_log[i].name = "retrieval_analyze_customer"
          /\ ~WasPrinted(PrintedCall(call_log[i]))
          /\ \E k \in DOMAIN messages :
                IsOutputEntry(messages[k]) /\ messages[k].call_id = call_log[i].call_id
    /\ \E i \in DOMAIN call_log :
          /\ call_log[i].name = "search_web"
          /\ WasPrinted(PrintedCall(call_log[i]))
          /\ WasPrinted(PrintedResponse(call_log[i]))

-----------------------------------------------------------------------------
(* The memory stores *)
(*   agents_module/agent_from_scratch/4_long_term_memory.py                 *)
(*   agents_module/agent_from_scratch/6_agent.py                            *)
(*   agents_module/agent_with_mcp/tools/memory_mcp.py                       *)
(* called directly, with any action, id and content.                        *)

MemoryProgs == {"4_long_term_memory", "6_agent_memory", "memory_mcp"}

MemIds == 1..MaxMemId

MemContents == {"a", "b"}

MemActions == {"create", "update", "delete"}

\* The manage_memories of each module.
ManageMemories(p, kwargs, mem) ==
    CASE p = "4_long_term_memory" -> ltm_manage_memories(kwargs, mem)
      [] p = "6_agent_memory" -> manage_memories(kwargs, mem)
      [] p = "memory_mcp" -> mcp_manage_memories(kwargs, mem)

\* A call manage_memories(action, id, content)
call_manage_memories ==
    /\ prog \in MemoryProgs
    /\ pc = "ready"
    /\ \E action \in MemActions, id \in MemIds, content \in MemContents \cup {NoneVal} :
          LET r == ManageMemories(prog, [action |-> action, id |-> id, content |-> content],
                                  memories)
          IN  /\ memories' = r.mem
              /\ last_op' = [action |-> action, id |-> id, content |-> content,
                             before |-> memories, raised |-> r.raised, exc |-> r.exc]
    /\ UNCHANGED <<prog, pc, turn, route_to_agent, user_input, messages, response, idx,
                   exit_reason, next_call_id, invocations, executed, base>>
    /\ UNCHANGED <<owVars, graphVars, printVars>>

\* A call get_memories()
call_get_memories ==
    /\ prog \in MemoryProgs
    /\ pc = "ready"
    /\ last_op' = [action |-> "get", before |-> memories, raised |-> FALSE, exc |-> "none"]
    /\ UNCHANGED <<prog, pc, turn, route_to_agent, user_input, messages, response, idx,
                   memories, exit_reason, next_call_id, invocations, executed, base>>
    /\ UNCHANGED <<owVars, graphVars, printVars>>

\* memories = {}; 4_long_term_memory.py and 6_agent.py then create memory 1
\* at module level.
InitMemory ==
    /\ prog \in MemoryProgs
    /\ pc = "ready"
    /\ memories = IF prog = "memory_mcp" THEN NoArgs ELSE Put(NoArgs, 1, "a")
    /\ last_op = NoOp
    /\ exit_reason = "none"
    /\ turn = 0
    /\ route_to_agent = FALSE
    /\ user_input = <<>>
    /\ messages = <<>>
    /\ response = <<>>
    /\ idx = 1
    /\ next_call_id = 0
    /\ invocations = 0
    /\ executed = {}
    /\ base = 0
    /\ tasks = <<>>
    /\ completed_tasks = <<>>
    /\ final_report = NoneVal
    /\ branch = <<>>
    /\ writes = <<>>
    /\ finish_order = <<>>
    /\ wf = NoArgs
    /\ node_runs = NoArgs
    /\ steps = 0
    /\ route = NoRoute
    /\ active = {}
    /\ fired = {}
    /\ pending = {}
    /\ hide_private_tools = FALSE
    /\ printed = <<>>
    /\ call_log = <<>>

NextMemory ==
    \/ call_manage_memories
    \/ call_get_memories

SpecMemory == InitMemory /\ [][NextMemory]_vars

\* The latest call was manage_memories with this action.
LastAction(action) == prog \in MemoryProgs /\ last_op.action = action

\* C19: in each of the three modules, manage_memories with action update or
\* delete and an id that is not in the store raises ValueError and leaves
\* the store as it was, whatever calls came before.
C19_UnknownIdRaisesAndKeepsStore ==
    \A action \in {"update", "delete"} :
        (LastAction(action) /\ last_op.id \notin DOMAIN last_op.before) =>
            /\ last_op.raised
            /\ last_op.exc = "ValueError"
            /\ memories = last_op.before

C19_Witness ==
    /\ prog = "4_long_term_memory"
    /\ LastAction("delete")
    /\ last_op.id = 2
    /\ last_op.before = Put(NoArgs, 1, "b")
    /\ last_op.raised
    /\ memories = Put(NoArgs, 1, "b")

\* C20: in the MCP memory server, manage_memories with action create and an
\* id that is in the store raises ValueError and leaves the store as it was;
\* no step changes the content of a stored memory unless it is an update of
\* that id, and none removes one unless it is a delete of that id.
C20_CreateNeverOverwrites ==
    /\ []((prog = "memory_mcp" /\ LastAction("create") /\ last_op.id \in DOMAIN last_op.before) =>
             /\ last_op.raised
             /\ last_op.exc = "ValueError"
             /\ memories = last_op.before)
    /\ [][prog = "memory_mcp" =>
             \A id \in DOMAIN memories :
                /\ id \notin DOMAIN memories' =>
                      last_op'.action = "delete" /\ last_op'.id = id
                /\ (id \in DOMAIN memories' /\ memories'[id] # memories[id]) =>
                      last_op'.action = "update" /\ last_op'.id = id]_vars

C20_Witness ==
    /\ prog = "memory_mcp"
    /\ LastAction("create")
    /\ last_op.id = 1
    /\ last_op.content = "b"
    /\ last_op.before = Put(NoArgs, 1, "a")
    /\ last_op.raised
    /\ memories = Put(NoArgs, 1, "a")

\* C21: in each of the three modules, manage_memories with action create or
\* update and content None raises and leaves the store as it was, and no id
\* of the store maps to None.
C21_ContentIsRequired ==
    prog \in MemoryProgs =>
        /\ \A action \in {"create", "update"} :
              (LastAction(action) /\ last_op.content = NoneVal) =>
                  /\ last_op.raised
                  /\ memories = last_op.before
        /\ \A id \in DOMAIN memories : memories[id] # NoneVal

-----------------------------------------------------------------------------
(* The script 2_tool_calling.py: one model invocation, the tool execution,  *)
(* and the second model invocation.                                         *)

\* The items the model may return: calls of search_web, the only tool in
\* tools, and an output message.
TcItems ==
    { FnCall("search_web", [query |-> "q1"]),
      FnCall("search_web", [query |-> "q2"]),
      BadJsonCall("search_web"),
      Msg }

TcShapes == SeqsUpTo(TcItems, MaxTcItems)

\* function_call = None; function_call_arguments = None
TcNoCall == [function_call |-> <<>>, function_call_arguments |-> <<>>]

TcFrame ==
    /\ UNCHANGED <<prog, turn, route_to_agent, user_input, memories>>
    /\ UNCHANGED <<owVars, node_runs, steps, route, active, fired, pending>>
    /\ UNCHANGED <<hide_private_tools, printed, last_op>>

\* response = client.responses.create(...); messages += response.output
tc_invoke ==
    /\ prog = "2_tool_calling"
    /\ pc = "invoke"
    /\ \E shape \in TcShapes : response' = WithIds(shape, next_call_id)
    /\ next_call_id' = next_call_id + NumCalls(response')
    /\ messages' = messages \o response'
    /\ base' = Len(messages)
    /\ invocations' = invocations + 1
    /\ idx' = 1
    /\ pc' = "for"
    /\ UNCHANGED <<wf, exit_reason, executed, call_log>>
    /\ TcFrame

\* One pass of: for item in response.output: if item.type == "function_call":
\*     function_call = item; function_call_arguments = json.loads(item.arguments)
tc_for_item ==
    /\ prog = "2_tool_calling"
    /\ pc = "for"
    /\ idx <= Len(response)
    /\ LET item == response[idx] IN
         IF IsCall(item)
         THEN IF item.arguments.wellformed
              THEN /\ wf' = [function_call |-> <<item>>,
                             function_call_arguments |-> <<item.arguments.kwargs>>]
                   /\ idx' = idx + 1
                   /\ UNCHANGED <<pc, exit_reason>>
              ELSE /\ wf' = [wf EXCEPT !.function_call = <<item>>]
                   /\ pc' = "crashed"
                   /\ exit_reason' = "JSONDecodeError"
                   /\ UNCHANGED idx
         ELSE /\ idx' = idx + 1
              /\ UNCHANGED <<wf, pc, exit_reason>>
    /\ UNCHANGED <<messages, response, next_call_id, invocations, executed, base, call_log>>
    /\ TcFrame

\* The entry appended after the loop, with function_call.call_id
TcOutput(function_call, result) ==
    [type |-> "function_call_output",
     call_id |-> function_call.call_id,
     output |-> Str(result)]

\* After the loop: result = {"search_results": search_web(**function_call_arguments)}
\* and the append of the function_call_output
tc_execute ==
    /\ prog = "2_tool_calling"
    /\ pc = "for"
    /\ idx > Len(response)
    /\ IF wf.function_call_arguments = <<>>
       THEN \* search_web(**None)
            /\ pc' = "crashed"
            /\ exit_reason' = "TypeError"
            /\ UNCHANGED <<messages, executed, call_log>>
       ELSE LET function_call == wf.function_call[1]
                kwargs == wf.function_call_arguments[1]
            IN  IF ~Binds("search_web", kwargs)
                THEN /\ pc' = "crashed"
                     /\ exit_reason' = "TypeError"
                     /\ UNCHANGED <<messages, executed, call_log>>
                ELSE /\ executed' = executed \cup {"search_web"}
                     /\ call_log' = Append(call_log, [call_id |-> function_call.call_id,
                                                      name |-> "search_web", kwargs |-> kwargs])
                     /\ messages' = Append(messages, TcOutput(function_call, "search_results"))
                     /\ pc' = "invoke_again"
                     /\ UNCHANGED exit_reason
    /\ UNCHANGED <<wf, response, idx, next_call_id, invocations, base>>
    /\ TcFrame

\* response = client.responses.create(...);
\* messages.append({"role": "assistant", "content": response.output_text})
tc_invoke_again ==
    /\ prog = "2_tool_calling"
    /\ pc = "invoke_again"
    /\ response' = <<Msg>>
    /\ invocations' = invocations + 1
    /\ messages' = Append(messages, [role |-> "assistant", content |-> Text])
    /\ pc' = "done"
    /\ UNCHANGED <<wf, idx, exit_reason, next_call_id, executed, base, call_log>>
    /\ TcFrame

InitTc ==
    /\ prog = "2_tool_calling"
    /\ pc = "invoke"
    /\ wf = TcNoCall
    /\ messages = << [role |-> "system", content |-> SystemPrompt],
                     [role |-> "user", content |-> <<"?">>] >>
    /\ exit_reason = "none"
    /\ turn = 0
    /\ route_to_agent = FALSE
    /\ user_input = <<>>
    /\ response = <<>>
    /\ idx = 1
    /\ memories = NoArgs
    /\ next_call_id = 0
    /\ invocations = 0
    /\ executed = {}
    /\ base = 0
    /\ tasks = <<>>
    /\ completed_tasks = <<>>
    /\ final_report = NoneVal
    /\ branch = <<>>
    /\ writes = <<>>
    /\ finish_order = <<>>
    /\ node_runs = NoArgs
    /\ steps = 0
    /\ route = NoRoute
    /\ active = {}
    /\ fired = {}
    /\ pending = {}
    /\ hide_private_tools = FALSE
    /\ printed = <<>>
    /\ call_log = <<>>
    /\ last_op = NoOp

NextTc ==
    \/ tc_invoke
    \/ tc_for_item
    \/ tc_execute
    \/ tc_invoke_again

SpecTc == InitTc /\ [][NextTc]_vars

IsFunctionCallEntry(m) == "type" \in DOMAIN m /\ m.type = "function_call"

\* C22: in 2_tool_calling.py, once the script is about to invoke the model
\* again or has done so, every function call of the first response has been
\* executed and has a function_call_output with its call_id in messages.
C22_EveryCallIsAnswered ==
    (prog = "2_tool_calling" /\ pc \in {"invoke_again", "done"}) =>
        \A j \in DOMAIN messages :
            IsFunctionCallEntry(messages[j]) =>
                /\ \E k \in DOMAIN messages :
                      IsOutputEntry(messages[k]) /\ messages[k].call_id = messages[j].call_id
                /\ \E i \in DOMAIN call_log : call_log[i].call_id = messages[j].call_id

-----------------------------------------------------------------------------
(* The search tools and the number of results they ask their backend for *)

min(a, b) == IF a <= b THEN a ELSE b

max(a, b) == IF a >= b THEN a ELSE b

SearchTools ==
    { "8_agent.search_web", "researcher.search_web",
      "6_agent.search_products", "6_agent.search_faq",
      "retrieval_mcp.search_products", "retrieval_mcp.search_faq" }

\* max_results of TavilySearch, n_results of collection.query
RequestedResults(tool, num_results) ==
    CASE tool = "8_agent.search_web" -> max(num_results, 3)
      [] tool = "researcher.search_web" -> min(num_results, 3)
      [] tool = "6_agent.search_products" -> min(num_results, 3)
      [] tool = "6_agent.search_faq" -> min(num_results, 3)
      [] tool = "retrieval_mcp.search_products" -> min(num_results, 3)
      [] tool = "retrieval_mcp.search_faq" -> min(num_results, 3)

\* The default of the parameter num_results.
num_results_default == 3

SearchQueries == {"q1", "q2"}

SearchFrame ==
    /\ UNCHANGED <<prog, pc, turn, route_to_agent, user_input, messages, response, idx,
                   memories, exit_reason, next_call_id, invocations, executed, base>>
    /\ UNCHANGED <<owVars, graphVars, printVars>>

\* The model calls a search tool and passes num_results.
call_search ==
    /\ prog = "search_tools"
    /\ \E tool \in SearchTools, query \in SearchQueries,
          num_results \in (0 - MaxNumResults)..MaxNumResults :
          last_op' = [action |-> "search", tool |-> tool, query |-> query,
                      num_results |-> num_results,
                      requested |-> RequestedResults(tool, num_results)]
    /\ SearchFrame

\* The model calls a search tool without num_results.
call_search_default ==
    /\ prog = "search_tools"
    /\ \E tool \in SearchTools, query \in SearchQueries :
          last_op' = [action |-> "search_default", tool |-> tool, query |-> query,
                      num_results |-> num_results_default,
                      requested |-> RequestedResults(tool, num_results_default)]
    /\ SearchFrame

InitSearch ==
    /\ prog = "search_tools"
    /\ pc = "ready"
    /\ last_op = NoOp
    /\ memories = NoArgs
    /\ exit_reason = "none"
    /\ turn = 0
    /\ route_to_agent = FALSE
    /\ user_input = <<>>
    /\ messages = <<>>
    /\ response = <<>>
    /\ idx = 1
    /\ next_call_id = 0
    /\ invocations = 0
    /\ executed = {}
    /\ base = 0
    /\ tasks = <<>>
    /\ completed_tasks = <<>>
    /\ final_report = NoneVal
    /\ branch = <<>>
    /\ writes = <<>>
    /\ finish_order = <<>>
    /\ wf = NoArgs
    /\ node_runs = NoArgs
    /\ steps = 0
    /\ route = NoRoute
    /\ active = {}
    /\ fired = {}
    /\ pending = {}
    /\ hide_private_tools = FALSE
    /\ printed = <<>>
    /\ call_log = <<>>

NextSearch ==
    \/ call_search
    \/ call_search_default

SpecSearch == InitSearch /\ [][NextSearch]_vars

\* C23: whatever integer num_results the model passes, a search tool asks
\* its backend for at most 3 results.
C23_AtMostThreeResults ==
    (prog = "search_tools" /\ last_op.action \in {"search", "search_default"}) =>
        last_op.requested <= 3

-----------------------------------------------------------------------------
(* The prompt-chaining workflow, 3_prompt_chaining.py *)

ChainNodes == {"create_outline", "tools", "write_draft", "optimize_seo"}

\* Texts the model may return: an outline (possibly empty), the answer of the
\* gate check, a draft, a final text.
OutlineValues == {"", "o1", "o2"}
GateAnswers == {"PASS", "FAIL", "PASS."}
DraftValues == {"d1", "d2"}
FinalValues == {"f1", "f2"}

\* Python truthiness of a str | None field.
Truthy(v) == v \notin {NoneVal, ""}

\* create_outline: a response with tool calls is appended to messages,
\* otherwise its content becomes the outline
create_outline ==
    /\ prog = "prompt_chaining"
    /\ pc = "create_outline"
    /\ ~OutOfSteps(default_recursion_limit)
    /\ \/ wf' = [wf EXCEPT !.messages = Append(@, "ai_tool_calls")]
       \/ \E o \in OutlineValues : wf' = [wf EXCEPT !.outline = o]
    /\ node_runs' = Ran("create_outline")
    /\ steps' = steps + 1
    /\ pc' = "check_outline_gate"
    /\ UNCHANGED <<exit_reason, route>>
    /\ OneNodeFrame

\* Variant: any answer of the gate check lets the outline through.
GatePassesAlways(content) == TRUE

\* response.content == "PASS"
GatePasses(content) == content = "PASS"

\* check_outline_gate, the conditional edge from create_outline
check_outline_gate ==
    /\ prog = "prompt_chaining"
    /\ pc = "check_outline_gate"
    /\ LET last_message == wf.messages[Len(wf.messages)] IN
         IF last_message = "ai_tool_calls"
         THEN /\ route' = Routed("check_outline_gate", "tool_calls", "tools")
              /\ pc' = "tools"
         ELSE IF Truthy(wf.outline)
         THEN \E content \in GateAnswers :
                 IF GatePasses(content)
                 THEN /\ route' = Routed("check_outline_gate", content, "write_draft")
                      /\ pc' = "write_draft"
                 ELSE /\ route' = Routed("check_outline_gate", content, END)
                      /\ pc' = "end"
         ELSE /\ route' = Routed("check_outline_gate", "no_outline", END)
              /\ pc' = "end"
    /\ UNCHANGED <<exit_reason, wf, node_runs, steps>>
    /\ OneNodeFrame

\* ToolNode(tools): the tool messages are appended; the edge to create_outline
chain_tools ==
    /\ prog = "prompt_chaining"
    /\ pc = "tools"
    /\ ~OutOfSteps(default_recursion_limit)
    /\ wf' = [wf EXCEPT !.messages = Append(@, "tool")]
    /\ node_runs' = Ran("tools")
    /\ steps' = steps + 1
    /\ pc' = "create_outline"
    /\ UNCHANGED <<exit_reason, route>>
    /\ OneNodeFrame

\* write_draft: the model is given state.outline; return {"draft": ...}
write_draft ==
    /\ prog = "prompt_chaining"
    /\ pc = "write_draft"
    /\ ~OutOfSteps(default_recursion_limit)
    /\ \E d \in DraftValues : wf' = [wf EXCEPT !.draft = d, !.draft_prompt = wf.outline]
    /\ node_runs' = Ran("write_draft")
    /\ steps' = steps + 1
    /\ pc' = "optimize_seo"
    /\ UNCHANGED <<exit_reason, route>>
    /\ OneNodeFrame

\* The text optimize_seo puts after "Rewrite the following draft:".
SeoText(state) == state.outline

\* optimize_seo: return {"final": response.content}; the edge to END
optimize_seo ==
    /\ prog = "prompt_chaining"
    /\ pc = "optimize_seo"
    /\ ~OutOfSteps(default_recursion_limit)
    /\ \E f \in FinalValues : wf' = [wf EXCEPT !.final = f, !.seo_prompt = SeoText(wf)]
    /\ node_runs' = Ran("optimize_seo")
    /\ steps' = steps + 1
    /\ pc' = "end"
    /\ UNCHANGED <<exit_reason, route>>
    /\ OneNodeFrame

\* A node is due but the budget of supersteps is used up: GraphRecursionError
chain_out_of_steps ==
    /\ prog = "prompt_chaining"
    /\ pc \in ChainNodes
    /\ OutOfSteps(default_recursion_limit)
    /\ pc' = "error"
    /\ exit_reason' = "GraphRecursionError"
    /\ UNCHANGED <<wf, node_runs, steps, route>>
    /\ OneNodeFrame

\* graph.invoke(WorkflowState(messages=[...])); draft_prompt and seo_prompt
\* are the texts the two writing nodes have sent to the model.
InitChain ==
    /\ prog = "prompt_chaining"
    /\ pc = "create_outline"
    /\ exit_reason = "none"
    /\ wf = [messages |-> <<"human">>, outline |-> NoneVal, draft |-> NoneVal,
             final |-> NoneVal, draft_prompt |-> NoneVal, seo_prompt |-> NoneVal]
    /\ node_runs = [n \in ChainNodes |-> 0]
    /\ steps = 0
    /\ route = NoRoute
    /\ active = {}
    /\ fired = {}
    /\ pending = {}
    /\ GraphOtherIdle

NextChain ==
    \/ create_outline
    \/ check_outline_gate
    \/ chain_tools
    \/ write_draft
    \/ optimize_seo
    \/ chain_out_of_steps

SpecChain == InitChain /\ [][NextChain]_vars

\* The gate's latest evaluation answered exactly PASS on an outline.
GateLastPassed ==
    /\ route # <<>>
    /\ route[Len(route)].router = "check_outline_gate"
    /\ route[Len(route)].input = "PASS"
    /\ route[Len(route)].value = "write_draft"

\* C24: in the prompt-chaining graph write_draft is due or has run only if
\* the outline is non-empty and the latest gate check answered exactly PASS;
\* a run that ends otherwise has no draft; optimize_seo runs once, directly
\* after write_draft; and when the run is over final is set only if draft
\* is, and draft only if outline is.
C24_DraftOnlyAfterPassedOutline ==
    prog = "prompt_chaining" =>
        /\ (pc = "write_draft" \/ node_runs["write_draft"] > 0) =>
              Truthy(wf.outline) /\ GateLastPassed
        /\ ~GateLastPassed => (wf.draft = NoneVal /\ wf.final = NoneVal)
        /\ node_runs["write_draft"] <= 1
        /\ node_runs["optimize_seo"] <= node_runs["write_draft"]
        /\ pc = "optimize_seo" <=>
              (node_runs["write_draft"] = 1 /\ node_runs["optimize_seo"] = 0)
        /\ (pc = "end" /\ node_runs["write_draft"] = 1) => node_runs["optimize_seo"] = 1
        /\ RunOver =>
              /\ wf.final # NoneVal => wf.draft # NoneVal
              /\ wf.draft # NoneVal => wf.outline # NoneVal

C24_Witness ==
    /\ prog = "prompt_chaining"
    /\ pc = "end"
    /\ node_runs["tools"] = 1
    /\ node_runs["create_outline"] = 2
    /\ GateLastPassed
    /\ wf.outline = "o2"
    /\ wf.draft = "d1"
    /\ wf.final = "f2"

\* C25: the text optimize_seo submits to the model for rewriting is the
\* draft that write_draft produced.
C25_SeoRewritesTheDraft ==
    (prog = "prompt_chaining" /\ node_runs["optimize_seo"] > 0) =>
        wf.seo_prompt = wf.draft

-----------------------------------------------------------------------------
(* The LangGraph agents: 8_agent.py, planner.py, researcher.py and
   2_augmented_llm.py build the same graph of an agent node and a tools node *)

AgentGraphProgs == {"8_agent", "planner", "researcher", "2_augmented_llm"}

\* The name under which the agent function is added to the graph.
AgentNode(p) == IF p = "2_augmented_llm" THEN "agent_node" ELSE "agent"

\* The numbers of tool calls a response of llm_with_tools may carry.
ToolCallCounts == 0..2

HumanMessage == [type |-> "human", tool_calls |-> 0]
AIMessage(n) == [type |-> "ai", tool_calls |-> n]
ToolMessage == [type |-> "tool", tool_calls |-> 0]

\* n copies of message m.
RECURSIVE Repeat(_, _)
Repeat(m, n) == IF n = 0 THEN <<>> ELSE <<m>> \o Repeat(m, n - 1)

\* The limits a run of the graph may be under: the library's default; main()
\* of 8_agent.py puts "recursion_limit": 30 into the configurable part of its
\* config, which the library may or may not take for the limit of the run.
AgentLimits(p) ==
    IF p = "8_agent" THEN {default_recursion_limit, recursion_limit}
    ELSE {default_recursion_limit}

\* agent: response = llm_with_tools.invoke(...); return {"messages": [response]}
agent ==
    /\ prog \in AgentGraphProgs
    /\ pc = AgentNode(prog)
    /\ ~OutOfSteps(wf.limit)
    /\ \E n \in ToolCallCounts :
          /\ (n > 1 => node_runs[AgentNode(prog)] < MaxFree)
          /\ wf' = [wf EXCEPT !.messages = Append(@, AIMessage(n))]
    /\ node_runs' = Ran(AgentNode(prog))
    /\ steps' = steps + 1
    /\ pc' = "agent_router"
    /\ UNCHANGED <<exit_reason, route>>
    /\ OneNodeFrame

\* Variant: the router sends every agent step to the tools node.
AgentRouterTargetAlwaysTools(state) == "tools"

\* if state.messages[-1].tool_calls: return "tools"; return END
AgentRouterTarget(state) ==
    IF state.messages[Len(state.messages)].tool_calls # 0 THEN "tools" ELSE END

\* agent_router, the conditional edge from the agent node, with the path map
\* {"tools": "tools", END: END}
agent_router ==
    /\ prog \in AgentGraphProgs
    /\ pc = "agent_router"
    /\ LET target == AgentRouterTarget(wf) IN
         /\ route' = Routed("agent_router", wf.messages[Len(wf.messages)].tool_calls, target)
         /\ pc' = IF target = END THEN "end" ELSE target
    /\ UNCHANGED <<exit_reason, wf, node_runs, steps>>
    /\ OneNodeFrame

\* ToolNode(tools): one tool message for each tool call of the last message;
\* the edge from "tools" to the agent node
agent_tools ==
    /\ prog \in AgentGraphProgs
    /\ pc = "tools"
    /\ ~OutOfSteps(wf.limit)
    /\ wf' = [wf EXCEPT !.messages =
                 @ \o Repeat(ToolMessage, wf.messages[Len(wf.messages)].tool_calls)]
    /\ node_runs' = Ran("tools")
    /\ steps' = steps + 1
    /\ pc' = AgentNode(prog)
    /\ UNCHANGED <<exit_reason, route>>
    /\ OneNodeFrame

\* A node is due but the budget of supersteps is used up: GraphRecursionError
agent_out_of_steps ==
    /\ prog \in AgentGraphProgs
    /\ pc \in {AgentNode(prog), "tools"}
    /\ OutOfSteps(wf.limit)
    /\ pc' = "error"
    /\ exit_reason' = "GraphRecursionError"
    /\ UNCHANGED <<wf, node_runs, steps, route>>
    /\ OneNodeFrame

\* graph.invoke(AgentState(messages=[user_input])), or graph.astream(...) from
\* stream_graph_responses
InitAgentGraph ==
    /\ prog \in AgentGraphProgs
    /\ pc = AgentNode(prog)
    /\ exit_reason = "none"
    /\ \E l \in AgentLimits(prog) : wf = [messages |-> <<HumanMessage>>, limit |-> l]
    /\ node_runs = [n \in {AgentNode(prog), "tools"} |-> 0]
    /\ steps = 0
    /\ route = NoRoute
    /\ active = {}
    /\ fired = {}
    /\ pending = {}
    /\ GraphOtherIdle

NextAgentGraph ==
    \/ agent
    \/ agent_router
    \/ agent_tools
    \/ agent_out_of_steps

SpecAgentGraph == InitAgentGraph /\ [][NextAgentGraph]_vars

LastMessage == wf.messages[Len(wf.messages)]

\* This step runs node n.
RunsNode(n) == node_runs'[n] = node_runs[n] + 1

\* What a step of an agent graph does with control.
AgentGraphStep ==
    prog \in AgentGraphProgs =>
        /\ RunsNode(AgentNode(prog)) => pc' = "agent_router"
        /\ pc = "agent_router" =>
              /\ pc' \in {"tools", "end"}
              /\ (pc' = "tools") <=> (LastMessage.tool_calls > 0)
              /\ (pc' = "end") <=> (LastMessage.tool_calls = 0)
        /\ RunsNode("tools") =>
              /\ pc' = AgentNode(prog)
              /\ LastMessage.type = "ai"
              /\ LastMessage.tool_calls > 0
        /\ pc' = "end" => pc = "agent_router"
        /\ pc' = "tools" => pc = "agent_router"

\* C26: in the four agent graphs, after an agent step the router is evaluated
\* and hands control to the tools node exactly when the last message carries
\* a tool call and to END otherwise; after every step of the tools node
\* control is with the agent node; so a run that has reached END has an AI
\* message without tool calls as its last message, added by the agent step
\* just before, and between two steps of the tools node there is an agent
\* step.  (A run that the recursion limit stops is aborted with
\* GraphRecursionError while a node is due; that is not an end of the run
\* in the sense of this statement.)
C26_ToolsIffToolCalls ==
    /\ [][AgentGraphStep]_vars
    /\ [](prog \in AgentGraphProgs =>
            /\ pc = "end" => (LastMessage.type = "ai" /\ LastMessage.tool_calls = 0)
            /\ pc = "agent_router" => LastMessage.type = "ai"
            /\ node_runs["tools"] <= node_runs[AgentNode(prog)]
            /\ node_runs[AgentNode(prog)] <= node_runs["tools"] + 1
            /\ pc = "tools" => node_runs["tools"] < node_runs[AgentNode(prog)])

\* Two rounds of tool calls, the first with two parallel calls, then an answer.
C26_Witness ==
    /\ prog \in AgentGraphProgs
    /\ pc = "end"
    /\ node_runs["tools"] = 2
    /\ node_runs[AgentNode(prog)] = 3
    /\ wf.messages = <<HumanMessage, AIMessage(2), ToolMessage, ToolMessage,
                       AIMessage(1), ToolMessage, AIMessage(0)>>

-----------------------------------------------------------------------------
(* The turn counter of the agent loop *)

\* What a step of the agent loop does with the turn counter.
TurnCounterStep ==
    prog \in AgentProgs =>
        /\ pc = "top" => turn' = turn + 1
        /\ pc # "top" => turn' = turn
        /\ invocations' # invocations =>
              /\ invocations' = invocations + 1
              /\ turn < recursion_limit
        /\ (pc = "top" /\ turn' = recursion_limit) =>
              /\ pc' = "done"
              /\ exit_reason' = "recursion_limit"
              /\ UNCHANGED <<messages, user_input, invocations>>

-----------------------------------------------------------------------------
(* Termination of the agent loop *)

InitAgentLoop == Init /\ prog \in AgentProgs

NextAgentLoop ==
    \/ LoopTop
    \/ ReadInput
    \/ InvokeModel
    \/ ProcessItem
    \/ EndFor

\* The interpreter keeps executing the loop, and every model call, tool call
\* and input read returns: a step that can be taken is taken.
SpecAgentLoopFair == InitAgentLoop /\ [][NextAgentLoop]_vars /\ WF_vars(NextAgentLoop)

\* The loop has been left: through a break, or by an exception that nothing
\* catches.
LoopOver == pc \in {"done", "crashed"}

\* C28: every run of the agent loop comes to an end after at most
\* recursion_limit iterations, whatever the user types and the model
\* answers; a run in which nothing raises ends through one of the two breaks.
C28_AgentLoopTerminates ==
    /\ [](turn <= recursion_limit)
    /\ [](pc = "done" => exit_reason \in {"recursion_limit", "exit_command"})
    /\ <>LoopOver

\* The user typed one message and never exit, the model asked for a tool in
\* every response, and the loop was left through the budget.
C28_Witness ==
    /\ prog \in AgentProgs
    /\ pc = "done"
    /\ exit_reason = "recursion_limit"
    /\ Len(SelectSeq(messages, IsUserEntry)) = 1
    /\ invocations = recursion_limit - 1
    /\ Len(SelectSeq(messages, IsOutputEntry)) >= recursion_limit - 1

====
